---- MODULE Spec2Model ----
(***************************************************************************)
(* The Context -> Decision pipeline of the EMI collections assistant:       *)
(* ContextAgent (src/src/agents/context_agent.py) with its helpers         *)
(* (src/src/utils/model_helpers.py) and DecisionAgent                      *)
(* (src/src/agents/decision_agent.py).                                     *)
(*                                                                         *)
(* Units.  Money is in whole rupees.  A sentiment score is in tenths       *)
(* (-0.5 is -5).  Time is in ticks of 75 seconds, 48 to the hour: the      *)
(* cache TTL of 300 seconds is 4 ticks, and the follow-up multipliers 1.5, *)
(* 0.75 and 1.25 are 3/2, 3/4 and 5/4, so every product the code forms     *)
(* from the integer base hours is a whole number of sixteenths of an hour, *)
(* hence of ticks, and, being dyadic, is exact in Python's floats too.     *)
(* Python's None is the string "None" where the value is otherwise a       *)
(* string, and NoRecord where it is otherwise a record.                    *)
(***************************************************************************)
EXTENDS Integers, Sequences, FiniteSets, TLC

VARIABLES
    customer,             \* the Customer row of the customer id at hand
    loans,                \* the customer's Loan rows, in table order
    payments,             \* the Payment rows of those loans: row kind -> count
    interactions,         \* the CustomerInteraction rows, oldest first
    cache,                \* ContextAgent.cache[customer_context_<id>] (NoRecord: no entry)
    context,              \* the customer context at hand (NoRecord before any)
    error,                \* the exception the last call raised (None: it returned)
    decision_rules,       \* DecisionAgent.decision_rules
    conversation_result,  \* the conversation result at hand
    decision,             \* the Decision the last make_decision returned
    decision_log,         \* the audit record of the last make_decision
    now,                  \* the wall clock, in ticks
    memo,                 \* an earlier make_decision call, kept for comparison
    unavailable,          \* the tables whose queries raise (the database failing)
    db_sessions,          \* the database sessions open
    op,                   \* the operation that ran last (None: none since the clock moved)
    calls,                \* the ContextAgent calls in flight, one slot a thread
    log_entries,          \* the number of entries in the interaction log file
    links                 \* the Payment rows create_payment_link inserted, by id

vars == <<customer, loans, payments, interactions, cache, context, error,
          decision_rules, conversation_result, decision, decision_log, now, memo,
          unavailable, db_sessions, op, calls, log_entries, links>>

storeVars ==
    <<customer, loans, payments, interactions, unavailable, log_entries, links>>
engineVars == <<decision_rules, conversation_result, decision, decision_log, memo>>

None == "None"
NoRecord == <<>>

\* ------------------------------------------------------------------ bounds

MaxLoans == 2
MaxCompleted == 13
MaxFailed == 3
MaxOther == 1
MaxInteractions == 4
MaxClock == 1
MaxCalls == 2
MaxDays == 1
MaxTicks == 4
MaxThreads == 2
MaxRecent == 11
MaxLinks == 1

\* ------------------------------------------------------------------- units

SecondsPerTick == 3 * 25
TicksPerHour == 3 * 16
SecondsPerDay == 24 * 3600
TicksPerDay == SecondsPerDay \div SecondsPerTick

\* ----------------------------------------------------------- small helpers

RECURSIVE SumSeq(_)
SumSeq(s) == IF s = <<>> THEN 0 ELSE Head(s) + SumSeq(Tail(s))

RECURSIVE SeqsUpTo(_, _)
SeqsUpTo(S, n) ==
    IF n = 0 THEN {<<>>}
    ELSE LET shorter == SeqsUpTo(S, n - 1)
         IN shorter \cup {Append(s, x) : s \in shorter, x \in S}

Min(a, b) == IF a < b THEN a ELSE b

Max(a, b) == IF a > b THEN a ELSE b

\* dict.get(key, default)
DictGet(d, key, default) == IF key \in DOMAIN d THEN d[key] ELSE default

\* -------------------------------------------------------------- the store

CustomerStatuses == {"active", "overdue", "defaulted", "closed", None}

\* A Payment row as the statistics queries see it: its status, and whether
\* created_at >= cutoff_date (the trailing window of 6 * 30 days).
PaymentRows ==
    { [status |-> "completed", in_window |-> TRUE],
      [status |-> "failed", in_window |-> TRUE],
      [status |-> "pending", in_window |-> TRUE],
      [status |-> "completed", in_window |-> FALSE] }

PaymentTable(completed, failed, pending, old) ==
    [ r \in PaymentRows |->
        IF ~r.in_window THEN old
        ELSE IF r.status = "completed" THEN completed
        ELSE IF r.status = "failed" THEN failed
        ELSE pending ]

PaymentTables ==
    { PaymentTable(c, f, p, o) :
        c \in 0..MaxCompleted, f \in 0..MaxFailed, p \in 0..MaxOther,
        o \in 0..MaxOther }

\* A Loan row: two loans of the first kind owe 100000 on 500000 lent, the
\* boundaries of the outstanding and of the principal tests; the second kind
\* is one rupee above each boundary's half.
LoanAmounts ==
    { [loan_amount |-> 250000, outstanding_amount |-> 50000],
      [loan_amount |-> 250001, outstanding_amount |-> 50001] }

LoanRows ==
    { [status |-> st, loan_amount |-> a.loan_amount,
       outstanding_amount |-> a.outstanding_amount] :
        st \in {"active", "closed"}, a \in LoanAmounts }

\* A CustomerInteraction row as the queries see it: the customer it is of,
\* its type, its outcome (None until the call's result is written) and
\* whether created_at is within the last 30 days.
InteractionRow(customer_id, interaction_type, outcome, in_window) ==
    [ customer_id |-> customer_id, type |-> interaction_type,
      outcome |-> outcome, in_window |-> in_window ]

InteractionRows ==
    { InteractionRow(1, "voice_call", "no_response", TRUE),
      InteractionRow(1, "sms", "payment_refusal", TRUE),
      InteractionRow(1, "sms", "promised_payment", TRUE) }

\* ------------------------------------------------- model_helpers.py

safe_str(value) == IF value = None THEN "" ELSE value

\* query(Payment).filter(...).count(): the number of rows among `rows`
RECURSIVE CountRows(_, _)
CountRows(table, rows) ==
    IF rows = {} THEN 0
    ELSE LET r == CHOOSE x \in rows : TRUE
         IN table[r] + CountRows(table, rows \ {r})

\* mutant: the rate compared with >= 0.8
RateAtLeastGood(successful, total) == 5 * successful >= 4 * total

\* successful_count / total_payments > 0.8 in floats: the quotient of two
\* small counts is within half an ulp of 0.8 only when it is 4/5 itself, which
\* rounds to the literal 0.8, so the comparison is that of the rationals.
RateAboveGood(successful, total) == 5 * successful > 4 * total

PaymentPattern(successful, total) ==
    IF total > 0 /\ RateAboveGood(successful, total) THEN "good"
    ELSE IF total > 0 THEN "poor"
    ELSE "new"

\* success_rate as the exact fraction <<numerator, denominator>>
SuccessRate(successful, total) ==
    IF total > 0 THEN <<successful, total>> ELSE <<0, 1>>

\* mutant: a pending payment left out of the total
InWindowSettled(r) == r.in_window /\ r.status # "pending"

InWindow(r) == r.in_window
InWindowCompleted(r) == r.in_window /\ r.status = "completed"
InWindowFailed(r) == r.in_window /\ r.status = "failed"

get_payment_statistics(table) ==
    LET total_payments == CountRows(table, {r \in DOMAIN table : InWindow(r)})
        successful_count ==
            CountRows(table, {r \in DOMAIN table : InWindowCompleted(r)})
        failed_count == CountRows(table, {r \in DOMAIN table : InWindowFailed(r)})
    IN [ total_payments |-> total_payments,
         successful_payments |-> successful_count,
         failed_payments |-> failed_count,
         success_rate |-> SuccessRate(successful_count, total_payments),
         on_time_payments |-> successful_count,
         late_payments |-> 0,
         payment_pattern |-> PaymentPattern(successful_count, total_payments) ]

\* every outstanding_amount of the store is a number, which safe_float keeps
RECURSIVE calculate_total_outstanding(_)
calculate_total_outstanding(ls) ==
    IF ls = <<>> THEN 0
    ELSE Head(ls).outstanding_amount + calculate_total_outstanding(Tail(ls))

IsActive(loan) == safe_str(loan.status) = "active"

filter_active_loans(ls) == SelectSeq(ls, IsActive)

\* ------------------------------------------------- context_agent.py

cache_ttl == 300
InteractionLimit == 10

RECURSIVE Reverse(_)
Reverse(s) == IF s = <<>> THEN <<>> ELSE Append(Reverse(Tail(s)), Head(s))

FirstN(s, n) == SubSeq(s, 1, Min(Len(s), n))

\* mutant: the rows in the order of the table, oldest first
OldestFirst(s) == s

\* order_by(CustomerInteraction.created_at.desc())
NewestFirst(s) == Reverse(s)

\* the customer's rows of the last 30 days, newest first, 10 at most, each as
\* the dict of its type and outcome
_get_recent_interactions(rows, customer_id) ==
    LET RecentRow(i) == i.customer_id = customer_id /\ i.in_window
        recent == FirstN(NewestFirst(SelectSeq(rows, RecentRow)), InteractionLimit)
    IN [k \in 1..Len(recent) |->
          [type |-> recent[k].type, outcome |-> recent[k].outcome]]

\* mutant: a customer without payments scored as one with a poor pattern
PatternPointsNewAsPoor(payment_pattern) ==
    IF payment_pattern = "good" THEN 10 ELSE 35

PatternPoints(payment_pattern) ==
    IF payment_pattern = "good" THEN 10
    ELSE IF payment_pattern = "poor" THEN 35
    ELSE 25

\* mutant: the thresholds compared with >=
OutstandingPointsInclusive(total_outstanding) ==
    IF total_outstanding >= 100000 THEN 25
    ELSE IF total_outstanding >= 50000 THEN 15
    ELSE 5

OutstandingPoints(total_outstanding) ==
    IF total_outstanding > 100000 THEN 25
    ELSE IF total_outstanding > 50000 THEN 15
    ELSE 5

\* mutant: the points of overdue and defaulted exchanged
StatusPointsSwapped(customer_status) ==
    IF customer_status = "overdue" THEN 30
    ELSE IF customer_status = "defaulted" THEN 20
    ELSE 5

StatusPoints(customer_status) ==
    IF customer_status = "overdue" THEN 20
    ELSE IF customer_status = "defaulted" THEN 30
    ELSE 5

\* mutant: more than two failures worth 15 points
FailurePointsHeavy(failed_payments) ==
    IF failed_payments > 2 THEN 15
    ELSE IF failed_payments > 0 THEN 5
    ELSE 0

FailurePoints(failed_payments) ==
    IF failed_payments > 2 THEN 10
    ELSE IF failed_payments > 0 THEN 5
    ELSE 0

\* risk_score before the clamp: the four components added up
RiskSum(payment_pattern, total_outstanding, customer_status, failed_payments) ==
    PatternPoints(payment_pattern)
        + OutstandingPoints(total_outstanding)
        + StatusPoints(customer_status)
        + FailurePoints(failed_payments)

\* `ls` are the loans the caller passes: the customer's active loans
_calculate_risk_score(cust, ls, payment_history) ==
    Min(RiskSum(payment_history.payment_pattern,
                calculate_total_outstanding(ls),
                safe_str(cust.status),
                payment_history.failed_payments),
        100)

\* mutant: only a payment made counts as a success
IsPaid(i) == i.outcome = "payment_made"

IsSuccessful(i) == i.outcome \in {"payment_made", "promised_payment"}

_determine_best_contact_time(recent_interactions) ==
    IF SelectSeq(recent_interactions, IsSuccessful) # <<>>
    THEN "10:00-16:00"
    ELSE "10:00-12:00"

\* context_parts, the parts of the summary string before they are joined
_build_conversation_context(cust, ls, payment_history) ==
    LET active_loans == filter_active_loans(ls)
    IN <<[part |-> "Customer"]>>
       \o (IF payment_history.payment_pattern = "good"
           THEN <<[part |-> "Good payment history"]>>
           ELSE IF payment_history.payment_pattern = "poor"
                THEN <<[part |-> "Irregular payment pattern"]>>
                ELSE <<>>)
       \o (IF active_loans # <<>>
           THEN <<[part |-> "Total outstanding",
                   amount |-> calculate_total_outstanding(active_loans)]>>
           ELSE <<>>)

\* (datetime.now() - cached_time).seconds < cache_ttl: `.seconds` is the
\* seconds part of the difference, its whole days left out
_is_cache_valid(entry, t) ==
    /\ entry # NoRecord
    /\ ((t - entry.timestamp) * SecondsPerTick) % SecondsPerDay < cache_ttl

\* mutant: the Loan query without its status filter
QueryAllLoans(allLoans) == allLoans

IsActiveRow(loan) == loan.status = "active"

\* query(Loan).filter(Loan.customer_id == customer_id, Loan.status == "active")
QueryActiveLoans(allLoans) == SelectSeq(allLoans, IsActiveRow)

\* The context get_customer_context assembles from the store (lines 46-97).
BuildContext(cust, allLoans, table, rows) ==
    LET active == QueryActiveLoans(allLoans)
        payment_history == get_payment_statistics(table)
        recent_interactions == _get_recent_interactions(rows, cust.id)
    IN [ customer_id |-> cust.id,
         risk_score |-> _calculate_risk_score(cust, active, payment_history),
         status |-> cust.status,
         loans |-> active,
         payment_history |-> payment_history,
         recent_interactions |-> recent_interactions,
         best_contact_time |-> _determine_best_contact_time(recent_interactions),
         conversation_context |->
             _build_conversation_context(cust, active, payment_history) ]

\* get_db_session(): one more session open
get_db_session(sessions) == sessions + 1

\* mutant: the session closed only when the call returns
CloseOnReturn(sessions, raised) == IF raised THEN sessions ELSE sessions - 1

\* try: ... finally: db.close(), on a return and on an exception alike
Finally(sessions, raised) == sessions - 1

\* the tables queried once the customer is found
LookedUp == {"loans", "payments", "customer_interactions"}

\* The exception that leaves the queries of lines 46-61 (None: none does).
\* No except clause stands between a query and the caller.
LookupError(cust, down) ==
    IF cust = NoRecord THEN "ValueError"
    ELSE IF LookedUp \cap down # {} THEN "OperationalError"
    ELSE None

\* ContextAgent.get_customer_context(customer.id)
GetCustomerContext ==
    /\ IF _is_cache_valid(cache, now)
       THEN /\ context' = cache.data
            /\ error' = None
            /\ UNCHANGED <<cache, db_sessions>>
       ELSE LET raised == LookupError(customer, unavailable)
            IN /\ IF raised # None
                  THEN /\ error' = raised
                       /\ UNCHANGED <<context, cache>>
                  ELSE /\ context' =
                              BuildContext(customer, loans, payments, interactions)
                       /\ cache' = [data |-> context', timestamp |-> now]
                       /\ error' = None
               /\ db_sessions' =
                      Finally(get_db_session(db_sessions), raised # None)
    /\ op' = "get_customer_context"
    /\ UNCHANGED <<storeVars, engineVars, now, calls>>

\* ContextAgent.update_customer_context(customer.id, ...): the entry deleted
\* if there is one
UpdateCustomerContext ==
    /\ cache' = NoRecord
    /\ op' = "update_customer_context"
    /\ UNCHANGED <<storeVars, context, error, engineVars, now, db_sessions, calls>>

\* get_customer_context and update_customer_context statement by statement,
\* as a thread runs them: between two statements another thread may run.  A
\* call in flight is [op, pc, built, error]: the method, the statement it is
\* at, the context it holds to return, and the exception that left it.
IdleCall == [op |-> None, pc |-> "idle", built |-> NoRecord, error |-> None]

At(t, label) == calls[t].pc = label

Goto(t, label) == calls' = [calls EXCEPT ![t].pc = label]

Fail(t, exception) ==
    calls' = [calls EXCEPT ![t].pc = "done", ![t].error = exception]

agentFrame == <<storeVars, engineVars, now, context, error, op>>

\* a thread enters get_customer_context
GetStart(t) ==
    /\ At(t, "idle")
    /\ calls' = [calls EXCEPT ![t].op = "get_customer_context",
                              ![t].pc = "membership"]
    /\ UNCHANGED <<cache, db_sessions, agentFrame>>

\* _is_cache_valid, line 248: if cache_key not in self.cache: return False
GetMembership(t) ==
    /\ At(t, "membership")
    /\ Goto(t, IF cache = NoRecord THEN "open" ELSE "timestamp")
    /\ UNCHANGED <<cache, db_sessions, agentFrame>>

\* _is_cache_valid, lines 251-252: self.cache[cache_key]["timestamp"] and
\* the comparison; the subscript raises KeyError if the key is gone
GetTimestamp(t) ==
    /\ At(t, "timestamp")
    /\ IF cache = NoRecord THEN Fail(t, "KeyError")
       ELSE Goto(t, IF _is_cache_valid(cache, now) THEN "read" ELSE "open")
    /\ UNCHANGED <<cache, db_sessions, agentFrame>>

\* line 41: return self.cache[cache_key]["data"]
GetRead(t) ==
    /\ At(t, "read")
    /\ IF cache = NoRecord THEN Fail(t, "KeyError")
       ELSE calls' = [calls EXCEPT ![t].pc = "done", ![t].built = cache.data]
    /\ UNCHANGED <<cache, db_sessions, agentFrame>>

\* line 43: db = get_db_session()
GetOpen(t) ==
    /\ At(t, "open")
    /\ db_sessions' = get_db_session(db_sessions)
    /\ Goto(t, "query")
    /\ UNCHANGED <<cache, agentFrame>>

\* lines 46-97: the queries and the context built from them
GetQuery(t) ==
    /\ At(t, "query")
    /\ LET raised == LookupError(customer, unavailable)
       IN IF raised # None
          THEN calls' = [calls EXCEPT ![t].pc = "close", ![t].error = raised]
          ELSE calls' = [calls EXCEPT
                           ![t].pc = "store",
                           ![t].built = BuildContext(customer, loans, payments,
                                                     interactions)]
    /\ UNCHANGED <<cache, db_sessions, agentFrame>>

\* mutant: the entry written only if the store still gives the context built
GetStoreIfCurrent(t) ==
    /\ At(t, "store")
    /\ cache' = IF calls[t].built
                    = BuildContext(customer, loans, payments, interactions)
                THEN [data |-> calls[t].built, timestamp |-> now]
                ELSE cache
    /\ Goto(t, "close")
    /\ UNCHANGED <<db_sessions, agentFrame>>

\* lines 100, 256: self.cache[cache_key] = {"data": ..., "timestamp": ...}
GetStore(t) ==
    /\ At(t, "store")
    /\ cache' = [data |-> calls[t].built, timestamp |-> now]
    /\ Goto(t, "close")
    /\ UNCHANGED <<db_sessions, agentFrame>>

\* lines 104-105: finally: db.close()
GetClose(t) ==
    /\ At(t, "close")
    /\ db_sessions' = Finally(db_sessions, calls[t].error # None)
    /\ Goto(t, "done")
    /\ UNCHANGED <<cache, agentFrame>>

\* a thread enters update_customer_context
UpdateStart(t) ==
    /\ At(t, "idle")
    /\ calls' = [calls EXCEPT ![t].op = "update_customer_context",
                              ![t].pc = "member"]
    /\ UNCHANGED <<cache, db_sessions, agentFrame>>

\* line 267: if cache_key in self.cache:
UpdateMember(t) ==
    /\ At(t, "member")
    /\ Goto(t, IF cache # NoRecord THEN "delete" ELSE "done")
    /\ UNCHANGED <<cache, db_sessions, agentFrame>>

\* line 268: del self.cache[cache_key], KeyError if the key is gone
UpdateDelete(t) ==
    /\ At(t, "delete")
    /\ IF cache = NoRecord
       THEN Fail(t, "KeyError") /\ UNCHANGED cache
       ELSE Goto(t, "done") /\ cache' = NoRecord
    /\ UNCHANGED <<db_sessions, agentFrame>>

\* the call returns to its caller, or its exception reaches it
Return(t) ==
    /\ At(t, "done")
    /\ context' = IF calls[t].op = "get_customer_context" /\ calls[t].error = None
                  THEN calls[t].built
                  ELSE context
    /\ error' = calls[t].error
    /\ op' = calls[t].op
    /\ calls' = [calls EXCEPT ![t] = IdleCall]
    /\ UNCHANGED <<cache, db_sessions, storeVars, engineVars, now>>

\* ------------------------------------------------- decision_agent.py

Vocabulary ==
    { "payment_agreement", "payment_requested", "promised_payment",
      "payment_delay", "reschedule_requested", "no_response",
      "payment_refusal", "unclear" }

Rule(action, priority, hours) ==
    [ next_action |-> action, priority |-> priority,
      follow_up_hours |-> hours * TicksPerHour ]

_load_decision_rules ==
    [ o \in Vocabulary |->
        CASE o = "payment_agreement" -> Rule("send_payment_link", "high", 2)
          [] o = "payment_requested" -> Rule("send_payment_link", "high", 2)
          [] o = "promised_payment" -> Rule("schedule_follow_up", "medium", 24)
          [] o = "payment_delay" -> Rule("schedule_follow_up", "medium", 48)
          [] o = "reschedule_requested" -> Rule("schedule_callback", "low", 24)
          [] o = "no_response" -> Rule("retry_call", "medium", 6)
          [] o = "payment_refusal" -> Rule("escalate_to_human", "high", 4)
          [] o = "unclear" -> Rule("retry_call", "low", 12) ]

EmptyDict == [k \in {} |-> k]

KeyError == [raised |-> "KeyError"]

\* mutant: self.decision_rules[outcome], which raises on an unknown outcome
BaseDecisionStrict(rules, outcome) ==
    IF outcome \in DOMAIN rules THEN rules[outcome] ELSE KeyError

\* self.decision_rules.get(outcome, self.decision_rules["unclear"])
BaseDecision(rules, outcome) == DictGet(rules, outcome, rules["unclear"])

\* mutant: the risk thresholds compared with >=
RiskAdjustedInclusive(d, risk_score) ==
    IF risk_score >= 80
    THEN [d EXCEPT !.priority = "critical",
                   !.follow_up_hours = Min(@, 2 * TicksPerHour)]
    ELSE IF risk_score >= 60
    THEN [d EXCEPT !.priority = "high",
                   !.follow_up_hours = Min(@, 4 * TicksPerHour)]
    ELSE d

RiskAdjusted(d, risk_score) ==
    IF risk_score > 80
    THEN [d EXCEPT !.priority = "critical",
                   !.follow_up_hours = Min(@, 2 * TicksPerHour)]
    ELSE IF risk_score > 60
    THEN [d EXCEPT !.priority = "high",
                   !.follow_up_hours = Min(@, 4 * TicksPerHour)]
    ELSE d

\* mutant: a poor pattern halving the hours
HistoryAdjustedHalving(d, payment_pattern) ==
    IF payment_pattern = "good"
    THEN [d EXCEPT !.follow_up_hours = (@ * 3) \div 2]
    ELSE IF payment_pattern = "poor"
    THEN [d EXCEPT !.follow_up_hours = @ \div 2]
    ELSE d

\* * 1.5 and * 0.75
HistoryAdjusted(d, payment_pattern) ==
    IF payment_pattern = "good"
    THEN [d EXCEPT !.follow_up_hours = (@ * 3) \div 2]
    ELSE IF payment_pattern = "poor"
    THEN [d EXCEPT !.follow_up_hours = (@ * 3) \div 4]
    ELSE d

\* * 1.25
CountAdjusted(d, recent_interactions) ==
    IF Len(recent_interactions) > 3
    THEN [d EXCEPT !.follow_up_hours = (@ * 5) \div 4]
    ELSE d

\* mutant: the multipliers applied before the risk cap
EnhanceMultiplyFirst(base_decision, customer_context, result) ==
    LET risk_score == DictGet(customer_context, "risk_score", 50)
        payment_history == DictGet(customer_context, "payment_history", EmptyDict)
        recent_interactions ==
            DictGet(customer_context, "recent_interactions", <<>>)
    IN RiskAdjusted(
         CountAdjusted(
           HistoryAdjusted(base_decision,
                           DictGet(payment_history, "payment_pattern", None)),
           recent_interactions),
         risk_score)

_enhance_decision_with_context(base_decision, customer_context, result) ==
    LET risk_score == DictGet(customer_context, "risk_score", 50)
        payment_history == DictGet(customer_context, "payment_history", EmptyDict)
        recent_interactions ==
            DictGet(customer_context, "recent_interactions", <<>>)
    IN CountAdjusted(
         HistoryAdjusted(RiskAdjusted(base_decision, risk_score),
                         DictGet(payment_history, "payment_pattern", None)),
         recent_interactions)

\* mutant: no copy, the adjustment is written into the table's own entry
\* mutant: the priority and the hours adjusted in the table's own entry
RulesAfterEnhanceInPlace(rules, outcome, enhanced_decision) ==
    LET key == IF outcome \in DOMAIN rules THEN outcome ELSE "unclear"
    IN [rules EXCEPT ![key].priority = enhanced_decision.priority,
                     ![key].follow_up_hours = enhanced_decision.follow_up_hours]

RulesAfterEnhanceAliased(rules, outcome, enhanced_decision) ==
    [rules EXCEPT ![IF outcome \in DOMAIN rules THEN outcome ELSE "unclear"] =
                      enhanced_decision]

\* base_decision.copy(): the adjusted entry is a new dict, and the rule table
\* keeps the entry it had
RulesAfterEnhance(rules, outcome, enhanced_decision) == rules

IsFailedAttempt(i) == i.outcome \in {"no_response", "payment_refusal"}

\* mutant: a principal of 500000 itself counted as VIP
VipInclusive(customer_context) ==
    LET ls == DictGet(customer_context, "loans", <<>>)
        total_loan_amount == SumSeq([k \in 1..Len(ls) |-> ls[k].loan_amount])
        payment_pattern ==
            DictGet(DictGet(customer_context, "payment_history", EmptyDict),
                    "payment_pattern", None)
    IN total_loan_amount >= 500000 /\ payment_pattern = "good"

_is_vip_customer(customer_context) ==
    LET ls == DictGet(customer_context, "loans", <<>>)
        total_loan_amount == SumSeq([k \in 1..Len(ls) |-> ls[k].loan_amount])
        payment_pattern ==
            DictGet(DictGet(customer_context, "payment_history", EmptyDict),
                    "payment_pattern", None)
    IN total_loan_amount > 500000 /\ payment_pattern = "good"

Escalation(needed, reason) == [escalation_needed |-> needed, reason |-> reason]

\* mutant: a refusal of payment left to the human the action names, unflagged
EscalationWithoutRefusal(customer_context, result) ==
    LET risk_score == DictGet(customer_context, "risk_score", 50)
        recent_interactions ==
            DictGet(customer_context, "recent_interactions", <<>>)
        sentiment_score == DictGet(result, "sentiment_score", 0)
    IN IF risk_score > 85 THEN Escalation(TRUE, "high_risk_customer")
       ELSE IF sentiment_score < -5
       THEN Escalation(TRUE, "negative_customer_sentiment")
       ELSE IF Len(SelectSeq(recent_interactions, IsFailedAttempt)) >= 3
       THEN Escalation(TRUE, "multiple_failed_attempts")
       ELSE IF _is_vip_customer(customer_context)
       THEN Escalation(TRUE, "vip_customer_handling")
       ELSE Escalation(FALSE, None)

\* mutant: the VIP test moved to the head of the chain
EscalationVipFirst(customer_context, result) ==
    LET risk_score == DictGet(customer_context, "risk_score", 50)
        outcome == DictGet(result, "outcome", None)
        recent_interactions ==
            DictGet(customer_context, "recent_interactions", <<>>)
        sentiment_score == DictGet(result, "sentiment_score", 0)
    IN IF _is_vip_customer(customer_context)
       THEN Escalation(TRUE, "vip_customer_handling")
       ELSE IF risk_score > 85 THEN Escalation(TRUE, "high_risk_customer")
       ELSE IF sentiment_score < -5
       THEN Escalation(TRUE, "negative_customer_sentiment")
       ELSE IF Len(SelectSeq(recent_interactions, IsFailedAttempt)) >= 3
       THEN Escalation(TRUE, "multiple_failed_attempts")
       ELSE IF outcome = "payment_refusal"
       THEN Escalation(TRUE, "payment_refusal")
       ELSE Escalation(FALSE, None)

_check_escalation_criteria(customer_context, result) ==
    LET risk_score == DictGet(customer_context, "risk_score", 50)
        outcome == DictGet(result, "outcome", None)
        recent_interactions ==
            DictGet(customer_context, "recent_interactions", <<>>)
        sentiment_score == DictGet(result, "sentiment_score", 0)
    IN IF risk_score > 85 THEN Escalation(TRUE, "high_risk_customer")
       ELSE IF sentiment_score < -5
       THEN Escalation(TRUE, "negative_customer_sentiment")
       ELSE IF Len(SelectSeq(recent_interactions, IsFailedAttempt)) >= 3
       THEN Escalation(TRUE, "multiple_failed_attempts")
       ELSE IF outcome = "payment_refusal"
       THEN Escalation(TRUE, "payment_refusal")
       ELSE IF _is_vip_customer(customer_context)
       THEN Escalation(TRUE, "vip_customer_handling")
       ELSE Escalation(FALSE, None)

\* datetime.now() + timedelta(hours=hours)
_calculate_follow_up_time(hours, t) == t + hours

\* mutant: the reminder not scheduled for a payment delayed
AdditionalActionsPromiseOnly(customer_context, outcome) ==
    LET risk_score == DictGet(customer_context, "risk_score", 50)
    IN <<"update_risk_score">>
       \o (IF risk_score > 70 THEN <<"send_sms_reminder">> ELSE <<>>)
       \o <<"update_crm">>
       \o (IF outcome = "promised_payment"
           THEN <<"schedule_payment_reminder">> ELSE <<>>)
       \o (IF outcome \in {"payment_requested", "payment_agreement"}
           THEN <<"generate_payment_link">> ELSE <<>>)

\* mutant: every interaction counted as a voice attempt
IsAnyAttempt(i) == i.type \in {"voice_call", "sms"}

IsVoiceCall(i) == i.type = "voice_call"

_recommend_communication_channel(customer_context, outcome) ==
    LET recent_interactions ==
            DictGet(customer_context, "recent_interactions", <<>>)
    IN IF outcome \in {"no_response", "reschedule_requested"} THEN "sms"
       ELSE IF outcome \in {"payment_requested", "promised_payment"} THEN "voice"
       ELSE IF outcome = "unclear"
       THEN IF Len(SelectSeq(recent_interactions, IsVoiceCall)) >= 2
            THEN "sms"
            ELSE "voice"
       ELSE "voice"

\* mutant: the risk score tested before the payment pattern
ToneRiskFirst(customer_context, sentiment_score) ==
    LET risk_score == DictGet(customer_context, "risk_score", 50)
        payment_pattern ==
            DictGet(DictGet(customer_context, "payment_history", EmptyDict),
                    "payment_pattern", None)
    IN IF sentiment_score > 5 THEN "friendly"
       ELSE IF sentiment_score < -3 THEN "empathetic"
       ELSE IF risk_score > 70 THEN "firm_but_polite"
       ELSE IF payment_pattern = "good" THEN "respectful"
       ELSE "professional"

_determine_message_tone(customer_context, sentiment_score) ==
    LET risk_score == DictGet(customer_context, "risk_score", 50)
        payment_pattern ==
            DictGet(DictGet(customer_context, "payment_history", EmptyDict),
                    "payment_pattern", None)
    IN IF sentiment_score > 5 THEN "friendly"
       ELSE IF sentiment_score < -3 THEN "empathetic"
       ELSE IF payment_pattern = "good" THEN "respectful"
       ELSE IF risk_score > 70 THEN "firm_but_polite"
       ELSE "professional"

\* mutant: the reminder sent from a risk score of 70 on
AdditionalActionsInclusive(customer_context, outcome) ==
    LET risk_score == DictGet(customer_context, "risk_score", 50)
    IN <<"update_risk_score">>
       \o (IF risk_score >= 70 THEN <<"send_sms_reminder">> ELSE <<>>)
       \o <<"update_crm">>
       \o (IF outcome \in {"promised_payment", "payment_delay"}
           THEN <<"schedule_payment_reminder">> ELSE <<>>)
       \o (IF outcome \in {"payment_requested", "payment_agreement"}
           THEN <<"generate_payment_link">> ELSE <<>>)

_get_additional_actions(customer_context, outcome) ==
    LET risk_score == DictGet(customer_context, "risk_score", 50)
    IN <<"update_risk_score">>
       \o (IF risk_score > 70 THEN <<"send_sms_reminder">> ELSE <<>>)
       \o <<"update_crm">>
       \o (IF outcome \in {"promised_payment", "payment_delay"}
           THEN <<"schedule_payment_reminder">> ELSE <<>>)
       \o (IF outcome \in {"payment_requested", "payment_agreement"}
           THEN <<"generate_payment_link">> ELSE <<>>)

\* the decision_log record _log_decision builds
_log_decision(customer_id, final_decision, result, t) ==
    [ timestamp |-> t,
      customer_id |-> customer_id,
      conversation_outcome |-> DictGet(result, "outcome", None),
      decision |-> final_decision ]

\* The Decision make_decision combines (lines 70-105), at clock reading t.
FinalDecision(rules, result, customer_context, t) ==
    LET outcome == DictGet(result, "outcome", "unclear")
        sentiment_score == DictGet(result, "sentiment_score", 0)
        base_decision == BaseDecision(rules, outcome)
        enhanced_decision ==
            _enhance_decision_with_context(base_decision, customer_context, result)
        escalation_decision == _check_escalation_criteria(customer_context, result)
    IN [ next_action |-> enhanced_decision.next_action,
         priority |-> enhanced_decision.priority,
         follow_up_datetime |->
             _calculate_follow_up_time(enhanced_decision.follow_up_hours, t),
         escalation_needed |-> escalation_decision.escalation_needed,
         escalation_reason |-> escalation_decision.reason,
         recommended_channel |->
             _recommend_communication_channel(customer_context, outcome),
         message_tone |-> _determine_message_tone(customer_context, sentiment_score),
         additional_actions |-> _get_additional_actions(customer_context, outcome) ]

\* The dicts the caller passed, after the call: make_decision and its
\* helpers read them (get, indexing, iteration) and assign into neither.
ContextAfterCall(customer_context) == customer_context

ResultAfterCall(result) == result

\* what a call of make_decision(result, customer_context) returns and leaves
Decide(result, customer_context) ==
    LET outcome == DictGet(result, "outcome", "unclear")
        base_decision == BaseDecision(decision_rules, outcome)
    IN /\ conversation_result' = ResultAfterCall(result)
       /\ context' = ContextAfterCall(customer_context)
       /\ IF base_decision = KeyError
             \/ "customer_id" \notin DOMAIN customer_context
          THEN /\ error' = "KeyError"
               /\ decision' = NoRecord
               /\ decision_log' = NoRecord
               /\ UNCHANGED decision_rules
          ELSE /\ decision' =
                      FinalDecision(decision_rules, result, customer_context, now)
               /\ decision_log' =
                      _log_decision(customer_context["customer_id"], decision',
                                    result, now)
               /\ decision_rules' =
                      RulesAfterEnhance(decision_rules, outcome,
                          _enhance_decision_with_context(base_decision,
                                                         customer_context, result))
               /\ error' = None

\* DecisionAgent.make_decision(result, customer_context)
MakeDecision(result, customer_context) ==
    /\ Decide(result, customer_context)
    /\ op' = "make_decision"
    /\ UNCHANGED <<storeVars, cache, now, memo, db_sessions, calls>>

\* ------------------------------------------------- voicebot_agent.py

_determine_customer_response_type(customer_context) ==
    LET risk_score == DictGet(customer_context, "risk_score", 50)
        payment_pattern ==
            DictGet(DictGet(customer_context, "payment_history", EmptyDict),
                    "payment_pattern", "new")
    IN IF payment_pattern = "good" /\ risk_score < 30 THEN "cooperative"
       ELSE IF payment_pattern = "good" /\ risk_score < 60 THEN "hesitant"
       ELSE IF risk_score > 70 THEN "non_responsive"
       ELSE "hesitant"

\* the outcome and the sentiment of the conversation result
_simulate_conversation(customer_context) ==
    LET customer_response_type == _determine_customer_response_type(customer_context)
    IN IF customer_response_type = "cooperative"
       THEN [outcome |-> "payment_requested", sentiment_score |-> 8]
       ELSE IF customer_response_type = "hesitant"
       THEN [outcome |-> "promised_payment", sentiment_score |-> 3]
       ELSE IF customer_response_type = "unavailable"
       THEN [outcome |-> "reschedule_requested", sentiment_score |-> 1]
       ELSE [outcome |-> "no_response", sentiment_score |-> -2]

\* the row _create_interaction_record inserts with created_at = utcnow(),
\* after _update_interaction_record has written the outcome to it
InteractionRecord(customer_id, interaction_type, outcome) ==
    InteractionRow(customer_id, interaction_type, outcome, TRUE)

\* VoiceBotAgent.initiate_call(customer_context, emi_info): the interaction
\* row, the conversation, the row's update and the decision.  It touches no
\* ContextAgent.
InitiateCall(customer_context) ==
    LET result == _simulate_conversation(customer_context)
    IN /\ customer_context # NoRecord
       /\ Len(interactions) < MaxCalls
       /\ interactions' =
              Append(interactions,
                     InteractionRecord(customer_context.customer_id, "voice_call",
                                       result.outcome))
       /\ Decide(result, customer_context)
       /\ op' = "initiate_call"
       /\ UNCHANGED <<customer, loans, payments, unavailable, log_entries, links,
                      cache, now, memo, db_sessions, calls>>

\* ------------------------------------------- logging_learning_agent.py

\* LoggingLearningAgent.log_interaction(interaction_data): one more line in
\* the log file (_store_log_entry); no table row and no ContextAgent is
\* touched.
LogInteraction ==
    /\ log_entries < MaxCalls
    /\ log_entries' = log_entries + 1
    /\ op' = "log_interaction"
    /\ UNCHANGED <<customer, loans, payments, interactions, unavailable, links,
                   cache, context, error, engineVars, now, db_sessions, calls>>

\* ------------------------------------------------- payment_agent.py

\* the Payment row _create_payment_record inserts, with created_at = utcnow()
_create_payment_record(loan_id, amount) ==
    [loan_id |-> loan_id, amount |-> amount, status |-> "pending"]

\* a Payment row of the last 6 * 30 days as the statistics queries see it
StatisticsRow(status) == [status |-> status, in_window |-> TRUE]

\* get_payment_statistics joins Payment to Loan on loan_id and filters on
\* the loan's customer_id: a payment of loan_id 0 is of no customer's
OfCustomer(payment, ls) == payment.loan_id \in DOMAIN ls

\* the payments table with one row's status changed
StatusUpdated(table, from, to) ==
    IF from = to THEN table
    ELSE [table EXCEPT ![StatisticsRow(from)] = @ - 1,
                       ![StatisticsRow(to)] = @ + 1]

\* PaymentAgent.create_payment_link(customer_context, loan_info,
\* custom_amount), where loan_id is loan_info's when that is an integer and 0
\* otherwise, and amount is custom_amount or loan_info's emi_amount: one
\* pending Payment row more.
CreatePaymentLink(loan_id, amount) ==
    LET payment_record == _create_payment_record(loan_id, amount)
    IN /\ Len(links) < MaxLinks
       /\ links' = Append(links, payment_record)
       /\ payments' =
              IF OfCustomer(payment_record, loans)
              THEN [payments EXCEPT ![StatisticsRow("pending")] = @ + 1]
              ELSE payments
       /\ op' = "create_payment_link"
       /\ UNCHANGED <<customer, loans, interactions, unavailable, log_entries,
                      cache, context, error, engineVars, now, db_sessions, calls>>

\* mutant: the amount subtracted without the floor
OutstandingUnfloored(current_outstanding, payment_amount) ==
    current_outstanding - payment_amount

\* new_outstanding = max(0, current_outstanding - payment_amount)
NewOutstanding(current_outstanding, payment_amount) ==
    Max(0, current_outstanding - payment_amount)

\* the Loan rows after _update_loan_outstanding(loan_id, payment_amount)
_update_loan_outstanding(ls, loan_id, payment_amount) ==
    IF loan_id \in DOMAIN ls
    THEN [ls EXCEPT ![loan_id].outstanding_amount =
                        NewOutstanding(@, payment_amount)]
    ELSE ls

\* the statuses _simulate_payment_verification returns, at random
_simulate_payment_verification == {"success", "failed"}

\* PaymentAgent.verify_payment(payment_id): the Payment row looked up by its
\* transaction id and, whatever its status, set to completed with its amount
\* taken off the loan, or set to failed.
VerifyPayment(payment_id, verification_result) ==
    /\ IF payment_id \notin DOMAIN links
       THEN UNCHANGED <<links, payments, loans>>
       ELSE LET payment == links[payment_id]
                status == IF verification_result = "success"
                          THEN "completed"
                          ELSE "failed"
            IN /\ links' = [links EXCEPT ![payment_id].status = status]
               /\ payments' =
                      IF OfCustomer(payment, loans)
                      THEN StatusUpdated(payments, payment.status, status)
                      ELSE payments
               /\ loans' =
                      IF verification_result = "success"
                      THEN _update_loan_outstanding(loans, payment.loan_id,
                                                    payment.amount)
                      ELSE loans
    /\ op' = "verify_payment"
    /\ UNCHANGED <<customer, interactions, unavailable, log_entries, cache,
                   context, error, engineVars, now, db_sessions, calls>>

\* ------------------------------------------------------- specifications

EngineIdle ==
    /\ decision_rules = _load_decision_rules
    /\ decision = NoRecord
    /\ decision_log = NoRecord
    /\ memo = NoRecord

\* no call made yet, none in flight
NoCalls ==
    /\ db_sessions = 0
    /\ op = None
    /\ calls = <<>>

NoPayments == [r \in PaymentRows |-> 0]

RECURSIVE Repeat(_, _)
Repeat(x, n) == IF n = 0 THEN <<>> ELSE Append(Repeat(x, n - 1), x)

\* A long interaction table, oldest row first: a promise of the customer's
\* older than 30 days or none, then the customer's rows of the last 30 days,
\* which are a payment made or promised followed by calls without response,
\* and last a payment made by another customer or none.
InteractionHistory(old, first, recent, foreign) ==
    Repeat(InteractionRow(1, "sms", "promised_payment", FALSE), old)
        \o (IF recent > 0
            THEN <<InteractionRow(1, "sms", first, TRUE)>>
                     \o Repeat(InteractionRow(1, "voice_call", "no_response", TRUE),
                               recent - 1)
            ELSE <<>>)
        \o Repeat(InteractionRow(2, "voice_call", "payment_made", TRUE), foreign)

InteractionHistories ==
    { InteractionHistory(old, first, recent, foreign) :
        old \in 0..1, first \in {"payment_made", "promised_payment"},
        recent \in 0..MaxRecent, foreign \in 0..1 }

\* The context builder over a store that holds still: every customer status,
\* loan list and payment table of the bounds (and no interactions), or every
\* interaction list (and no loans or payments), or a long interaction table,
\* or a customer without rows, or no customer at all, while any of the tables
\* looked up may be failing.
InitContext ==
    /\ \/ /\ customer \in [id : {1}, status : CustomerStatuses]
          /\ loans \in SeqsUpTo(LoanRows, MaxLoans)
          /\ payments \in PaymentTables
          /\ interactions = <<>>
          /\ unavailable = {}
       \/ /\ customer \in [id : {1}, status : CustomerStatuses]
          /\ loans = <<>>
          /\ payments = NoPayments
          /\ interactions \in SeqsUpTo(InteractionRows, MaxInteractions)
          /\ unavailable = {}
       \/ /\ customer = [id |-> 1, status |-> "active"]
          /\ loans = <<>>
          /\ payments = NoPayments
          /\ interactions \in InteractionHistories
          /\ unavailable = {}
       \/ /\ customer \in [id : {1}, status : CustomerStatuses] \cup {NoRecord}
          /\ loans = <<>>
          /\ payments = NoPayments
          /\ interactions = <<>>
          /\ unavailable \in SUBSET LookedUp
    /\ log_entries = 0
    /\ links = <<>>
    /\ NoCalls
    /\ cache = NoRecord
    /\ context = NoRecord
    /\ error = None
    /\ now = 0
    /\ conversation_result = NoRecord
    /\ EngineIdle

NextContext == GetCustomerContext

SpecContext == InitContext /\ [][NextContext]_vars

\* The decision engine on one context: every risk score around the
\* thresholds 60, 70, 80 and 85, every pattern, recent interactions of one
\* kind (none to MaxInteractions of them), and loans whose principals sum to
\* nothing, to 500000 and to 500001, with every conversation result.
RiskScores == {50, 60, 61, 70, 71, 80, 81, 85, 86, 90}

Patterns == {"good", "poor", "new"}

InteractionLists ==
    { Repeat([type |-> i.type, outcome |-> i.outcome], n) :
        i \in InteractionRows, n \in 0..MaxInteractions }

Principal(amount) ==
    [status |-> "active", loan_amount |-> amount, outstanding_amount |-> 0]

PrincipalLists ==
    { <<>>,
      <<Principal(250000), Principal(250000)>>,
      <<Principal(250000), Principal(250001)>> }

DecisionContext(risk_score, payment_pattern, recent_interactions, ls) ==
    [ customer_id |-> 1,
      risk_score |-> risk_score,
      payment_history |-> [payment_pattern |-> payment_pattern],
      recent_interactions |-> recent_interactions,
      loans |-> ls ]

DecisionContexts ==
    { DecisionContext(r, p, il, ll) :
        r \in RiskScores, p \in Patterns, il \in InteractionLists,
        ll \in PrincipalLists }

Outcomes == Vocabulary \cup {"xyz", None}

Sentiments == {-6, -5, -3, 5, 6}

\* with both keys, without the outcome key, without the sentiment key
ConversationResults ==
    [outcome : Outcomes, sentiment_score : Sentiments]
        \cup [sentiment_score : Sentiments]
        \cup [outcome : Outcomes]

StoreIdle ==
    /\ customer = [id |-> 1, status |-> "active"]
    /\ loans = <<>>
    /\ payments = NoPayments
    /\ interactions = <<>>
    /\ unavailable = {}
    /\ log_entries = 0
    /\ links = <<>>
    /\ cache = NoRecord
    /\ NoCalls

InitDecision ==
    /\ StoreIdle
    /\ context \in DecisionContexts
    /\ conversation_result \in ConversationResults
    /\ now \in 0..MaxClock
    /\ error = None
    /\ EngineIdle

NextDecision == MakeDecision(conversation_result, context)

SpecDecision == InitDecision /\ [][NextDecision]_vars

\* Repeated calls of one engine as the clock advances: each call passes one
\* of the contexts of the spec's two scenarios with one of a few conversation
\* results, and any call made may be kept in memo to be compared with a later
\* one.
ReplayContexts ==
    { DecisionContext(50, "good",
          Repeat([type |-> "sms", outcome |-> "promised_payment"], 1), <<>>),
      DecisionContext(90, "poor",
          Repeat([type |-> "voice_call", outcome |-> "no_response"], 4), <<>>) }

ReplayResults ==
    [ outcome : {"unclear", "xyz", "no_response", "payment_requested"},
      sentiment_score : {-6, 6} ]

\* the passing of time
Tick ==
    /\ now < MaxClock
    /\ now' = now + 1
    /\ op' = None
    /\ UNCHANGED <<storeVars, cache, context, error, engineVars, db_sessions,
                   calls>>

\* keep the last call and what it returned
Remember ==
    /\ decision # NoRecord
    /\ memo' = [ result |-> conversation_result,
                 context |-> context,
                 decision |-> decision,
                 timestamp |-> decision_log.timestamp ]
    /\ UNCHANGED <<storeVars, cache, context, error, decision_rules,
                   conversation_result, decision, decision_log, now,
                   db_sessions, op, calls>>

InitReplay ==
    /\ StoreIdle
    /\ context = NoRecord
    /\ conversation_result = NoRecord
    /\ now = 0
    /\ error = None
    /\ EngineIdle

NextReplay ==
    \/ \E r \in ReplayResults, c \in ReplayContexts : MakeDecision(r, c)
    \/ Remember
    \/ Tick

SpecReplay == InitReplay /\ [][NextReplay]_vars

\* One ContextAgent in front of a store that calls change, over a day and
\* more: get_customer_context, the calls that record an interaction, the
\* invalidation, and the clock moving by a tick or by a day.  The customer is
\* active or defaulted with no payment, one completed or one failed.
Elapse(d) ==
    /\ now' = now + d
    /\ op' = None
    /\ UNCHANGED <<storeVars, cache, context, error, engineVars, db_sessions,
                   calls>>

ElapseTick == now % TicksPerDay < MaxTicks /\ Elapse(1)

ElapseDay == now \div TicksPerDay < MaxDays /\ Elapse(TicksPerDay)

InitCache ==
    /\ customer \in [id : {1}, status : {"active", "defaulted"}]
    /\ loans = <<>>
    /\ payments \in {NoPayments, PaymentTable(1, 0, 0, 0), PaymentTable(0, 1, 0, 0)}
    /\ interactions = <<>>
    /\ unavailable = {}
    /\ log_entries = 0
    /\ links = <<>>
    /\ cache = NoRecord
    /\ NoCalls
    /\ context = NoRecord
    /\ conversation_result = NoRecord
    /\ now = 0
    /\ error = None
    /\ EngineIdle

NextCache ==
    \/ GetCustomerContext
    \/ InitiateCall(context)
    \/ LogInteraction
    \/ UpdateCustomerContext
    \/ ElapseTick
    \/ ElapseDay

SpecCache == InitCache /\ [][NextCache]_vars

\* One ContextAgent and one PaymentAgent over the store of a customer with
\* one active loan owing 50000 and no payment yet, or one completed: payment
\* links of 30000 are created and verified, any number of times each, and
\* the context is read as the clock runs past the TTL.
PaymentAmounts == {30000}

InitPayment ==
    /\ customer = [id |-> 1, status |-> "active"]
    /\ loans = <<[status |-> "active", loan_amount |-> 250000,
                  outstanding_amount |-> 50000]>>
    /\ payments \in {NoPayments, PaymentTable(1, 0, 0, 0)}
    /\ interactions = <<>>
    /\ unavailable = {}
    /\ log_entries = 0
    /\ links = <<>>
    /\ cache = NoRecord
    /\ NoCalls
    /\ context = NoRecord
    /\ conversation_result = NoRecord
    /\ now = 0
    /\ error = None
    /\ EngineIdle

NextPayment ==
    \/ GetCustomerContext
    \/ \E loan_id \in 0..Len(loans), amount \in PaymentAmounts :
          CreatePaymentLink(loan_id, amount)
    \/ \E payment_id \in 1..MaxLinks,
          verification_result \in _simulate_payment_verification :
          VerifyPayment(payment_id, verification_result)
    \/ ElapseTick

SpecPayment == InitPayment /\ [][NextPayment]_vars

\* Threads calling get_customer_context and update_customer_context of one
\* ContextAgent with no lock, over a store that holds still (a customer
\* without rows, or none), while the clock runs past the TTL.
Threads == 1..MaxThreads

InitRace ==
    /\ customer \in {[id |-> 1, status |-> "active"], NoRecord}
    /\ loans = <<>>
    /\ payments = NoPayments
    /\ interactions = <<>>
    /\ unavailable = {}
    /\ log_entries = 0
    /\ links = <<>>
    /\ cache = NoRecord
    /\ db_sessions = 0
    /\ op = None
    /\ calls = [t \in Threads |-> IdleCall]
    /\ context = NoRecord
    /\ conversation_result = NoRecord
    /\ now = 0
    /\ error = None
    /\ EngineIdle

NextRace ==
    \/ \E t \in Threads :
          \/ GetStart(t)
          \/ GetMembership(t)
          \/ GetTimestamp(t)
          \/ GetRead(t)
          \/ GetOpen(t)
          \/ GetQuery(t)
          \/ GetStore(t)
          \/ GetClose(t)
          \/ UpdateStart(t)
          \/ UpdateMember(t)
          \/ UpdateDelete(t)
          \/ Return(t)
    \/ ElapseTick

SpecRace == InitRace /\ [][NextRace]_vars

\* The same threads while calls are made to the customer: each call records
\* an interaction in the store, and invalidates nothing.
NextRaceWithCalls ==
    \/ \E t \in Threads :
          \/ GetStart(t)
          \/ GetMembership(t)
          \/ GetTimestamp(t)
          \/ GetRead(t)
          \/ GetOpen(t)
          \/ GetQuery(t)
          \/ GetStore(t)
          \/ GetClose(t)
          \/ UpdateStart(t)
          \/ UpdateMember(t)
          \/ UpdateDelete(t)
          \/ Return(t)
    \/ ElapseTick
    \/ InitiateCall(context)

SpecRaceWithCalls == InitRace /\ [][NextRaceWithCalls]_vars

\* ------------------------------------------------------------- claims

\* The store's own figures, read off the rows without the helpers.
ActiveOutstanding ==
    SumSeq([k \in 1..Len(loans) |->
              IF loans[k].status = "active" THEN loans[k].outstanding_amount ELSE 0])

WindowCount(status) == payments[[status |-> status, in_window |-> TRUE]]

WindowTotal == WindowCount("completed") + WindowCount("failed") + WindowCount("pending")

AllComponentsMaxed ==
    /\ context.payment_history.payment_pattern = "poor"
    /\ ActiveOutstanding > 100000
    /\ customer.status = "defaulted"
    /\ WindowCount("failed") > 2

\* C1: the risk score of every computed context lies in [0,100], and when the
\* four components are at their maximum together (pattern poor, outstanding
\* above 100000, status defaulted, more than 2 failed payments) it is exactly
\* 100.
C1_RiskScoreInRange ==
    context # NoRecord =>
        /\ context.risk_score >= 0
        /\ context.risk_score <= 100
        /\ AllComponentsMaxed => context.risk_score = 100

C1_Witness ==
    /\ context # NoRecord
    /\ AllComponentsMaxed
    /\ context.risk_score = 100

ClaimedP == CASE context.payment_history.payment_pattern = "good" -> 10
              [] context.payment_history.payment_pattern = "poor" -> 35
              [] context.payment_history.payment_pattern = "new" -> 25

ClaimedO == IF ActiveOutstanding > 100000 THEN 25
            ELSE IF ActiveOutstanding > 50000 THEN 15 ELSE 5

ClaimedS == IF customer.status = "overdue" THEN 20
            ELSE IF customer.status = "defaulted" THEN 30 ELSE 5

ClaimedF == IF WindowCount("failed") > 2 THEN 10
            ELSE IF WindowCount("failed") \in {1, 2} THEN 5 ELSE 0

\* C2: the risk score is min(100, P + O + S + F) with the points 10/35/25 by
\* pattern, 25/15/5 by the outstanding total of the active loans (strictly
\* above 100000, strictly above 50000), 20/30/5 by status and 10/5/0 by failed
\* payments (more than 2, 1 or 2, none); with no loans, no payments and a
\* status other than overdue or defaulted it is 35 and the pattern is new.
C2_RiskScoreFormula ==
    context # NoRecord =>
        /\ context.risk_score = Min(100, ClaimedP + ClaimedO + ClaimedS + ClaimedF)
        /\ (loans = <<>> /\ payments = NoPayments
              /\ customer.status \notin {"overdue", "defaulted"})
           => /\ context.risk_score = 35
              /\ context.payment_history.payment_pattern = "new"

\* two active loans owing exactly 100000 together score 15, not 25
C2_Witness ==
    /\ context # NoRecord
    /\ ActiveOutstanding = 100000
    /\ Len(loans) = 2
    /\ WindowCount("failed") = 2
    /\ context.risk_score = ClaimedP + 15 + ClaimedS + 5

\* C3: payment_pattern is new iff total_payments = 0, good iff total_payments
\* > 0 and successful/total > 0.8 strictly, poor otherwise; success_rate is
\* successful/total, or 0 when total is 0; the counts are those of the
\* payments of the trailing window.
C3_PaymentPattern ==
    context # NoRecord =>
        LET h == context.payment_history
        IN /\ h.total_payments = WindowTotal
           /\ h.successful_payments = WindowCount("completed")
           /\ h.failed_payments = WindowCount("failed")
           /\ (h.payment_pattern = "new") <=> (WindowTotal = 0)
           /\ (h.payment_pattern = "good")
                <=> (WindowTotal > 0 /\ 10 * WindowCount("completed") > 8 * WindowTotal)
           /\ h.payment_pattern \in {"new", "good", "poor"}
           /\ IF WindowTotal = 0
              THEN h.success_rate[1] = 0
              ELSE h.success_rate[1] * WindowTotal
                     = WindowCount("completed") * h.success_rate[2]
           /\ h.success_rate[2] > 0

\* four completed payments of five: the rate is exactly 0.8, and the pattern poor
C3_Witness ==
    /\ context # NoRecord
    /\ WindowTotal = 5
    /\ WindowCount("completed") = 4
    /\ context.payment_history.payment_pattern = "poor"

\* What the last make_decision was given and returned, as the claims read it.
HasOutcome == "outcome" \in DOMAIN conversation_result

GivenOutcome == conversation_result["outcome"]

GivenSentiment ==
    IF "sentiment_score" \in DOMAIN conversation_result
    THEN conversation_result["sentiment_score"]
    ELSE 0

Decided == decision # NoRecord

\* the follow-up offset: follow_up_datetime less the time of the call
Offset == decision.follow_up_datetime - decision_log.timestamp

NumberOf(s, Test(_)) == Cardinality({k \in 1..Len(s) : Test(s[k])})

\* the spec's base rule table: <<outcome, action, priority, hours>>
ClaimedTable ==
    { <<"payment_agreement", "send_payment_link", "high", 2>>,
      <<"payment_requested", "send_payment_link", "high", 2>>,
      <<"promised_payment", "schedule_follow_up", "medium", 24>>,
      <<"payment_delay", "schedule_follow_up", "medium", 48>>,
      <<"reschedule_requested", "schedule_callback", "low", 24>>,
      <<"no_response", "retry_call", "medium", 6>>,
      <<"payment_refusal", "escalate_to_human", "high", 4>>,
      <<"unclear", "retry_call", "low", 12>> }

\* C4: for each of the eight vocabulary outcomes make_decision returns the
\* next_action of the base rule table whatever the context, and the table's
\* priority when risk_score <= 60; the table's base hours are 2, 2, 24, 48,
\* 24, 6, 4, 12.
C4_BaseRuleTable ==
    \A row \in ClaimedTable :
        /\ decision_rules[row[1]].follow_up_hours = row[4] * TicksPerHour
        /\ (Decided /\ HasOutcome /\ GivenOutcome = row[1]) =>
              /\ decision.next_action = row[2]
              /\ context.risk_score <= 60 => decision.priority = row[3]

\* at risk 60 a reschedule request keeps the table's low priority
C4_Witness ==
    /\ Decided /\ HasOutcome
    /\ GivenOutcome = "reschedule_requested"
    /\ context.risk_score = 60
    /\ decision.next_action = "schedule_callback"
    /\ decision.priority = "low"

\* the base entry of the call: that of the outcome, or of unclear
ClaimedBase ==
    CHOOSE row \in ClaimedTable :
        row[1] = (IF HasOutcome /\ GivenOutcome \in Vocabulary
                  THEN GivenOutcome ELSE "unclear")

ClaimedCapped ==
    LET base == ClaimedBase[4] * TicksPerHour
    IN IF context.risk_score > 80 THEN Min(base, 2 * TicksPerHour)
       ELSE IF context.risk_score > 60 THEN Min(base, 4 * TicksPerHour)
       ELSE base

\* C5: the adjustment runs in this order: risk_score > 80 makes the priority
\* critical and caps the hours at 2, else risk_score > 60 makes it high and
\* caps them at 4; then the hours are multiplied by 1.5 (pattern good) or 0.75
\* (poor); then by 1.25 with more than 3 recent interactions.  The
\* multipliers act on the capped value: no_response at risk 90, pattern poor,
\* 4 interactions gives critical and 1.875 hours.
C5_AdjustmentOrder ==
    Decided =>
        LET pattern == context.payment_history.payment_pattern
            many == Len(context.recent_interactions) > 3
            num == (IF pattern = "good" THEN 3 ELSE IF pattern = "poor" THEN 3 ELSE 1)
                     * (IF many THEN 5 ELSE 1)
            den == (IF pattern = "good" THEN 2 ELSE IF pattern = "poor" THEN 4 ELSE 1)
                     * (IF many THEN 4 ELSE 1)
        IN /\ Offset * den = ClaimedCapped * num
           /\ decision.priority =
                 (IF context.risk_score > 80 THEN "critical"
                  ELSE IF context.risk_score > 60 THEN "high"
                  ELSE ClaimedBase[3])

\* 1.875 hours are 15/8 of an hour
C5_Witness ==
    /\ Decided /\ HasOutcome
    /\ GivenOutcome = "no_response"
    /\ context.risk_score = 90
    /\ context.payment_history.payment_pattern = "poor"
    /\ Len(context.recent_interactions) = 4
    /\ decision.priority = "critical"
    /\ Offset * 8 = 15 * TicksPerHour

ClaimedFailed(i) == i.outcome \in {"no_response", "payment_refusal"}

ClaimedVip ==
    /\ SumSeq([k \in 1..Len(context.loans) |-> context.loans[k].loan_amount])
         > 500000
    /\ context.payment_history.payment_pattern = "good"

\* the five escalation conditions, in the order of the check
ClaimedEscalations ==
    << [holds |-> context.risk_score > 85, reason |-> "high_risk_customer"],
       [holds |-> GivenSentiment < -5, reason |-> "negative_customer_sentiment"],
       [holds |-> NumberOf(context.recent_interactions, ClaimedFailed) >= 3,
        reason |-> "multiple_failed_attempts"],
       [holds |-> HasOutcome /\ GivenOutcome = "payment_refusal",
        reason |-> "payment_refusal"],
       [holds |-> ClaimedVip, reason |-> "vip_customer_handling"] >>

\* C6: the escalation check is first-match-wins over risk_score > 85,
\* sentiment < -0.5, at least 3 recent interactions with outcome no_response
\* or payment_refusal, outcome payment_refusal, VIP (principals above 500000
\* in sum and pattern good): the reason is that of the first condition that
\* holds, and escalation_needed is false with no reason exactly when none
\* holds.
C6_EscalationFirstMatch ==
    Decided =>
        LET e == ClaimedEscalations
            hits == {k \in 1..Len(e) : e[k].holds}
        IN /\ decision.escalation_needed <=> (hits # {})
           /\ \A k \in hits :
                 (\A j \in hits : k <= j) => decision.escalation_reason = e[k].reason
           /\ (hits = {}) <=> (decision.escalation_reason = None)

\* a VIP context above risk 85 escalates as a high-risk customer
C6_Witness ==
    /\ Decided
    /\ context.risk_score > 85
    /\ ClaimedVip
    /\ decision.escalation_needed
    /\ decision.escalation_reason = "high_risk_customer"

DecisionFields ==
    { "next_action", "priority", "follow_up_datetime", "escalation_needed",
      "escalation_reason", "recommended_channel", "message_tone",
      "additional_actions" }

\* C8: make_decision never fails: for every outcome (of the vocabulary, any
\* other, or none at all), every sentiment score and every well-formed
\* context it raises no error and returns a Decision with all eight fields
\* set.
C8_NeverFails ==
    /\ error = None
    /\ Decided =>
          /\ DOMAIN decision = DecisionFields
          /\ decision.next_action
                \in {"send_payment_link", "schedule_follow_up", "schedule_callback",
                     "retry_call", "escalate_to_human"}
          /\ decision.priority \in {"low", "medium", "high", "critical"}
          /\ decision.follow_up_datetime \in Nat
          /\ decision.escalation_needed \in BOOLEAN
          /\ decision.recommended_channel \in {"voice", "sms"}
          /\ decision.message_tone
                \in {"friendly", "empathetic", "respectful", "firm_but_polite",
                     "professional"}
          /\ Len(decision.additional_actions) >= 2
          /\ decision_log.decision = decision

\* a call without any outcome, and one with an outcome not of the vocabulary
C8_Witness ==
    /\ Decided
    /\ error = None
    /\ \/ ~HasOutcome
       \/ GivenOutcome = None

ClaimedVoice(i) == i.type = "voice_call"

\* C10: recommended_channel is voice or sms: sms for no_response and
\* reschedule_requested; voice for payment_requested and promised_payment;
\* for unclear, sms with at least 2 voice_call interactions among the recent
\* ones, else voice; voice for payment_agreement, payment_delay and
\* payment_refusal.
C10_ChannelTable ==
    Decided =>
        /\ decision.recommended_channel \in {"voice", "sms"}
        /\ HasOutcome =>
              LET o == GivenOutcome
                  c == decision.recommended_channel
              IN /\ o \in {"no_response", "reschedule_requested"} => c = "sms"
                 /\ o \in {"payment_requested", "promised_payment"} => c = "voice"
                 /\ o = "unclear" =>
                       (c = "sms")
                         <=> NumberOf(context.recent_interactions, ClaimedVoice) >= 2
                 /\ o \in {"payment_agreement", "payment_delay", "payment_refusal"}
                       => c = "voice"

\* unclear after exactly two voice calls goes to sms
C10_Witness ==
    /\ Decided /\ HasOutcome
    /\ GivenOutcome = "unclear"
    /\ NumberOf(context.recent_interactions, ClaimedVoice) = 2
    /\ decision.recommended_channel = "sms"

\* The same call made twice: the one kept in memo and the last one.
SameCall ==
    /\ memo # NoRecord
    /\ Decided
    /\ memo.result = conversation_result
    /\ memo.context = context

\* the fields of a Decision other than follow_up_datetime
TimelessFields == DecisionFields \ {"follow_up_datetime"}

\* C9, as stated: two calls of make_decision with identical outcome,
\* sentiment and context, made at any two times, return Decisions identical in
\* every field, follow_up_datetime included.
C9_IdenticalDecision == SameCall => memo.decision = decision

\* C9, amended: the two Decisions agree in every field but
\* follow_up_datetime, which in each is the time of its call plus the same
\* offset.
C9_IdenticalButClock ==
    SameCall =>
        /\ \A f \in TimelessFields : memo.decision[f] = decision[f]
        /\ memo.decision.follow_up_datetime - memo.timestamp = Offset

\* the same call at two times, with two follow-up datetimes
C9_Witness ==
    /\ SameCall
    /\ memo.timestamp # decision_log.timestamp
    /\ memo.decision.follow_up_datetime # decision.follow_up_datetime

\* C7: with an outcome outside the vocabulary make_decision returns a
\* Decision identical in every field (the follow-up as an offset) to the one
\* it returns for outcome unclear with the same context and sentiment.
C7_UnknownAsUnclear ==
    ( /\ memo # NoRecord
      /\ Decided
      /\ memo.context = context
      /\ memo.result.sentiment_score = conversation_result.sentiment_score
      /\ memo.result.outcome \notin Vocabulary
      /\ conversation_result.outcome = "unclear" )
    => /\ \A f \in TimelessFields : memo.decision[f] = decision[f]
       /\ memo.decision.follow_up_datetime - memo.timestamp = Offset

\* C11: message_tone is chosen first-match-wins: sentiment above 0.5 gives
\* friendly; below -0.3 empathetic; else a good payment pattern gives
\* respectful; else a risk score above 70 gives firm_but_polite; else
\* professional.  So firm_but_polite comes only with a sentiment in
\* [-0.3, 0.5], a pattern that is not good and a risk score above 70, and the
\* tone is always one of the five.
C11_ToneFirstMatch ==
    Decided =>
        LET sentiment == GivenSentiment
            good == context.payment_history.payment_pattern = "good"
            tone == decision.message_tone
        IN /\ tone \in {"friendly", "empathetic", "respectful", "firm_but_polite",
                         "professional"}
           /\ sentiment > 5 => tone = "friendly"
           /\ sentiment < -3 => tone = "empathetic"
           /\ (sentiment >= -3 /\ sentiment <= 5) =>
                 /\ good => tone = "respectful"
                 /\ (~good /\ context.risk_score > 70) => tone = "firm_but_polite"
                 /\ (~good /\ context.risk_score <= 70) => tone = "professional"
           /\ tone = "firm_but_polite" =>
                 /\ sentiment >= -3 /\ sentiment <= 5
                 /\ ~good
                 /\ context.risk_score > 70

\* a sentiment of -0.3 itself is not empathetic, and a good pattern at risk
\* 71 is respectful, not firm
C11_Witness ==
    /\ Decided
    /\ GivenSentiment = -3
    /\ context.risk_score = 71
    /\ context.payment_history.payment_pattern = "good"
    /\ decision.message_tone = "respectful"

\* the outcome the result carries, None without one
OutcomeGiven == IF HasOutcome THEN GivenOutcome ELSE None

\* C12: additional_actions always holds update_risk_score and update_crm;
\* send_sms_reminder exactly when risk_score > 70;
\* schedule_payment_reminder exactly for promised_payment and payment_delay;
\* generate_payment_link exactly for payment_requested and payment_agreement;
\* and no other tag.
C12_AdditionalActions ==
    Decided =>
        LET actions == decision.additional_actions
            tags == {actions[k] : k \in 1..Len(actions)}
        IN /\ {"update_risk_score", "update_crm"} \subseteq tags
           /\ "send_sms_reminder" \in tags <=> context.risk_score > 70
           /\ "schedule_payment_reminder" \in tags
                 <=> OutcomeGiven \in {"promised_payment", "payment_delay"}
           /\ "generate_payment_link" \in tags
                 <=> OutcomeGiven \in {"payment_requested", "payment_agreement"}
           /\ tags \subseteq {"update_risk_score", "update_crm", "send_sms_reminder",
                              "schedule_payment_reminder", "generate_payment_link"}

\* at a risk score of 70 itself no reminder goes out
C12_Witness ==
    /\ Decided
    /\ context.risk_score = 70
    /\ OutcomeGiven = "payment_agreement"
    /\ decision.additional_actions
          = <<"update_risk_score", "update_crm", "generate_payment_link">>

\* The spec's first scenario: payment_requested, risk 50, pattern good,
\* sentiment 0.6 and one recent interaction.
Scenario ==
    /\ Decided
    /\ OutcomeGiven = "payment_requested"
    /\ GivenSentiment = 6
    /\ context.risk_score = 50
    /\ context.payment_history.payment_pattern = "good"
    /\ Len(context.recent_interactions) = 1

ScenarioDecision ==
    /\ decision.next_action = "send_payment_link"
    /\ decision.priority = "high"
    /\ Offset = 3 * TicksPerHour
    /\ decision.recommended_channel = "voice"
    /\ decision.message_tone = "friendly"

\* the principal the context's loans sum to
ScenarioPrincipal ==
    SumSeq([k \in 1..Len(context.loans) |-> context.loans[k].loan_amount])

\* C18, as stated: in the scenario make_decision returns send_payment_link,
\* high, an offset of 3.0 hours, voice, friendly and escalation_needed False
\* for every loan list the context may carry.
C18_ScenarioAnyLoans ==
    Scenario => (ScenarioDecision /\ decision.escalation_needed = FALSE)

\* C18, amended: the same, with escalation_needed False while the loans'
\* principal sums to at most 500000; above it the customer is VIP and
\* escalation_needed is True with reason vip_customer_handling.
C18_ScenarioUnlessVip ==
    Scenario =>
        /\ ScenarioDecision
        /\ IF ScenarioPrincipal > 500000
           THEN /\ decision.escalation_needed = TRUE
                /\ decision.escalation_reason = "vip_customer_handling"
           ELSE /\ decision.escalation_needed = FALSE
                /\ decision.escalation_reason = None

\* the scenario with loans of 500001 in all: a VIP, escalated
C18_Witness ==
    /\ Scenario
    /\ ScenarioPrincipal = 500001
    /\ decision.escalation_needed = TRUE
    /\ decision.escalation_reason = "vip_customer_handling"

\* the store's loans whose status is active, and the others
ClaimedActive(loan) == loan.status = "active"

ClaimedInactive(loan) == loan.status # "active"

\* C19: only loans with status active enter a context: a loan of another
\* status is not in context["loans"], adds nothing to the outstanding total of
\* the risk score or of the conversation summary, and nothing to the
\* principal sum of the VIP test; the context is the one the same store
\* would give without those loans.
C19_ActiveLoansOnly ==
    context # NoRecord =>
        LET kept == SelectSeq(loans, ClaimedActive)
            principal == SumSeq([k \in 1..Len(kept) |-> kept[k].loan_amount])
            summary == context.conversation_context
            last == summary[Len(summary)]
        IN /\ context.loans = kept
           /\ context = BuildContext(customer, kept, payments, interactions)
           /\ context.risk_score
                 = Min(100, ClaimedP + ClaimedO + ClaimedS + ClaimedF)
           /\ IF kept = <<>>
              THEN last.part # "Total outstanding"
              ELSE /\ last.part = "Total outstanding"
                   /\ last.amount = ActiveOutstanding
           /\ _is_vip_customer(context)
                 <=> /\ principal > 500000
                     /\ context.payment_history.payment_pattern = "good"

\* a closed loan beside an active one: with it the principal would pass
\* 500000 and the outstanding 50000, without it neither does
C19_Witness ==
    /\ context # NoRecord
    /\ Len(loans) = 2
    /\ Len(SelectSeq(loans, ClaimedInactive)) = 1
    /\ Len(context.loans) = 1
    /\ SumSeq([k \in 1..Len(loans) |-> loans[k].loan_amount]) > 500000
    /\ context.payment_history.payment_pattern = "good"
    /\ ~_is_vip_customer(context)
    /\ ClaimedO = 5

\* C15: get_customer_context for a customer id without a record fails with
\* ValueError, returns no context, stores no cache entry and closes the
\* database session it opened, and so does every later call.
C15_NotFound ==
    (customer = NoRecord /\ op = "get_customer_context") =>
        /\ error = "ValueError"
        /\ context = NoRecord
        /\ cache = NoRecord
        /\ db_sessions = 0

\* the call for the absent customer has failed, its session closed
C15_Witness ==
    /\ customer = NoRecord
    /\ op = "get_customer_context"
    /\ error = "ValueError"
    /\ db_sessions = 0

\* C16: for an existing customer get_customer_context succeeds even when
\* the loan, payment or interaction lookups fail or return nothing: it
\* returns a context with empty collections and a risk score, not an error.
C16_FailSoft ==
    (customer # NoRecord /\ op = "get_customer_context") =>
        /\ error = None
        /\ context # NoRecord
        /\ context.risk_score \in 0..100
        /\ unavailable # {} =>
              /\ context.loans = <<>>
              /\ context.recent_interactions = <<>>
              /\ context.payment_history.total_payments = 0
              /\ context.payment_history.payment_pattern = "new"

C13_InvalidatedByInteraction ==
    (op = "get_customer_context" /\ error = None) =>
        context.recent_interactions =
            _get_recent_interactions(interactions, customer.id)

\* C14: a context is never served from the cache beyond the TTL:
\* get_customer_context returns the cached context only when the entry was
\* stored less than 300 seconds before the call, and recomputes it at every
\* age of 300 seconds or more, ages of a day and more included.
C14_NeverBeyondTtl ==
    (op = "get_customer_context" /\ error = None) =>
        (now - cache.timestamp) * SecondsPerTick < cache_ttl

\* C17: with no lock, every interleaving of the statements of concurrent
\* get_customer_context and update_customer_context calls is harmless: no
\* call fails on the cache (no lookup or delete of a key another call has
\* just removed), and every get that returns, returns a complete context.
C17_HarmlessRace ==
    \A t \in DOMAIN calls :
        /\ calls[t].error # "KeyError"
        /\ ( /\ calls[t].op = "get_customer_context"
             /\ calls[t].pc = "done"
             /\ calls[t].error = None )
           => calls[t].built
                = BuildContext(customer, loans, payments, interactions)

\* the rows of the store that are the customer's and of the last 30 days,
\* oldest first
OwnRecent(rows) ==
    LET Eligible(i) == i.customer_id = customer.id /\ i.in_window
    IN SelectSeq(rows, Eligible)

C22_BestContactTime ==
    (op = "get_customer_context" /\ error = None) =>
        LET recent == context.recent_interactions
            successful ==
                \E k \in 1..Len(recent) :
                    recent[k].outcome \in {"payment_made", "promised_payment"}
        IN /\ context.best_contact_time \in {"10:00-16:00", "10:00-12:00"}
           /\ context.best_contact_time = "10:00-16:00" <=> successful

\* a payment made as the oldest of ten recent rows widens the window
C22_Witness ==
    /\ op = "get_customer_context"
    /\ error = None
    /\ interactions = InteractionHistory(0, "payment_made", 10, 0)
    /\ context.recent_interactions[10].outcome = "payment_made"
    /\ context.best_contact_time = "10:00-16:00"

\* the sum of the four components of the context at hand, before the clamp
ContextRiskSum ==
    RiskSum(context.payment_history.payment_pattern,
            calculate_total_outstanding(context.loans),
            safe_str(context.status),
            context.payment_history.failed_payments)

\* some inputs, among values that take every branch of every component, for
\* which the clamp changes the sum
ClampChangesSomeSum ==
    \E p \in Patterns \cup {"xyz"},
       o \in {0, 50000, 50001, 100000, 100001, 100000000},
       st \in {safe_str(x) : x \in CustomerStatuses},
       f \in 0..(MaxFailed + 1) :
        Min(RiskSum(p, o, st, f), 100) # RiskSum(p, o, st, f)

\* C23, as stated: the four components can sum past 100 before clamping, so
\* that min(sum, 100) changes the result.  The sum is largest where every
\* component is: there it would pass 100 and differ from the score.
C23_ClampChangesResult ==
    ( /\ op = "get_customer_context"
      /\ error = None
      /\ context.payment_history.payment_pattern = "poor"
      /\ context.payment_history.failed_payments > 2
      /\ context.status = "defaulted"
      /\ calculate_total_outstanding(context.loans) > 100000 ) =>
        /\ ContextRiskSum > 100
        /\ context.risk_score # ContextRiskSum

\* C23, amended: the four components sum to 100 at most (35 + 25 + 30 + 10),
\* so the clamp never changes the result: every risk score returned is the
\* sum itself.
C23_ClampNeverBites ==
    /\ ~ClampChangesSomeSum
    /\ (op = "get_customer_context" /\ error = None) =>
           /\ ContextRiskSum <= 100
           /\ context.risk_score = ContextRiskSum

\* every component at its maximum: the sum is 100 and so is the score
C23_Witness ==
    /\ op = "get_customer_context"
    /\ error = None
    /\ context.payment_history.payment_pattern = "poor"
    /\ context.payment_history.failed_payments > 2
    /\ context.status = "defaulted"
    /\ calculate_total_outstanding(context.loans) > 100000
    /\ ContextRiskSum = 100
    /\ context.risk_score = 100

\* the decisions make_decision returns for the context at hand: one for each
\* outcome, at a sentiment that raises no escalation of its own
DecisionsOnContext ==
    { FinalDecision(_load_decision_rules, r, context, now) :
        r \in [outcome : Outcomes, sentiment_score : {5}] }

\* C27: in every context get_customer_context produces, pattern good implies
\* 20 <= risk_score <= 75, and pattern new implies failed_payments = 0 and
\* risk_score <= 80; so on such contexts make_decision gives priority
\* critical or the escalation reason high_risk_customer only with pattern
\* poor, and no such context is both VIP and of risk_score above 85.
C27_BuilderContexts ==
    (op = "get_customer_context" /\ error = None) =>
        LET payment_pattern == context.payment_history.payment_pattern
        IN /\ payment_pattern = "good" =>
                  context.risk_score >= 20 /\ context.risk_score <= 75
           /\ payment_pattern = "new" =>
                  /\ context.payment_history.failed_payments = 0
                  /\ context.risk_score <= 80
           /\ \A d \in DecisionsOnContext :
                  (d.priority = "critical"
                     \/ d.escalation_reason = "high_risk_customer") =>
                      payment_pattern = "poor"
           /\ ~(_is_vip_customer(context) /\ context.risk_score > 85)

\* a VIP customer at the largest risk a good pattern allows: 13 payments of
\* 16 completed, 3 failed, status defaulted, more than 100000 outstanding
C27_Witness ==
    /\ op = "get_customer_context"
    /\ error = None
    /\ context.payment_history.payment_pattern = "good"
    /\ context.payment_history.failed_payments = 3
    /\ context.risk_score = 75
    /\ _is_vip_customer(context)
    /\ \A d \in DecisionsOnContext : d.priority = "high"

\* the action of the base rule of the outcome given, the rule of unclear for
\* an outcome outside the vocabulary or none
BaseRuleAction ==
    LET outcome == IF HasOutcome THEN GivenOutcome ELSE "unclear"
    IN IF outcome \in Vocabulary
       THEN _load_decision_rules[outcome].next_action
       ELSE _load_decision_rules["unclear"].next_action

\* C28: in every Decision, next_action escalate_to_human implies
\* escalation_needed, with one of the reasons high_risk_customer,
\* negative_customer_sentiment, multiple_failed_attempts or payment_refusal;
\* next_action is always the action of the outcome's base rule, whatever
\* escalation_needed is, so the converse does not hold.
C28_EscalateImpliesNeeded ==
    Decided =>
        /\ decision.next_action = "escalate_to_human" =>
               /\ decision.escalation_needed = TRUE
               /\ decision.escalation_reason \in
                      { "high_risk_customer", "negative_customer_sentiment",
                        "multiple_failed_attempts", "payment_refusal" }
        /\ decision.next_action = BaseRuleAction

\* the converse failing: a payment requested by a customer of risk 90 is
\* escalated and the action stays send_payment_link
C28_Witness ==
    /\ Decided
    /\ OutcomeGiven = "payment_requested"
    /\ context.risk_score = 90
    /\ decision.escalation_needed = TRUE
    /\ decision.escalation_reason = "high_risk_customer"
    /\ decision.next_action = "send_payment_link"

\* C29: in every Decision, for outcomes of the vocabulary and others alike,
\* additional_actions holds generate_payment_link exactly when next_action is
\* send_payment_link and schedule_payment_reminder exactly when next_action
\* is schedule_follow_up; the two tags never occur together and no tag
\* occurs twice.
C29_TagsFollowAction ==
    Decided =>
        LET actions == decision.additional_actions
            tags == {actions[k] : k \in 1..Len(actions)}
        IN /\ "generate_payment_link" \in tags
                 <=> decision.next_action = "send_payment_link"
           /\ "schedule_payment_reminder" \in tags
                 <=> decision.next_action = "schedule_follow_up"
           /\ ~({"generate_payment_link", "schedule_payment_reminder"}
                    \subseteq tags)
           /\ Cardinality(tags) = Len(actions)

\* a payment delayed: followed up, with the reminder and without the link
C29_Witness ==
    /\ Decided
    /\ OutcomeGiven = "payment_delay"
    /\ context.risk_score = 71
    /\ decision.next_action = "schedule_follow_up"
    /\ decision.additional_actions
          = <<"update_risk_score", "send_sms_reminder", "update_crm",
              "schedule_payment_reminder">>

\* C30: the follow-up offset is always between 1.5 and 90 hours, so
\* follow_up_datetime is later than the time of the call; with risk_score
\* above 80 it is at most 3.75 hours, and with risk_score above 60 and at
\* most 80 it is at most 7.5 hours: the caps of 2 and 4 hours bound the value
\* before the multipliers only.
C30_OffsetBounds ==
    Decided =>
        /\ 2 * Offset >= 3 * TicksPerHour
        /\ Offset <= 90 * TicksPerHour
        /\ decision.follow_up_datetime > decision_log.timestamp
        /\ context.risk_score > 80 => 4 * Offset <= 15 * TicksPerHour
        /\ (context.risk_score > 60 /\ context.risk_score <= 80) =>
               2 * Offset <= 15 * TicksPerHour

\* risk 81, pattern good and four recent interactions: the 2 hours of the
\* cap times 1.5 times 1.25, 3.75 hours
C30_Witness ==
    /\ Decided
    /\ context.risk_score = 81
    /\ context.payment_history.payment_pattern = "good"
    /\ Len(context.recent_interactions) = 4
    /\ 4 * Offset = 15 * TicksPerHour
    /\ Offset > 2 * TicksPerHour

\* the customer's only payment is one pending payment link
OnePendingLink ==
    /\ payments = PaymentTable(0, 0, 1, 0)
    /\ Len(links) = 1
    /\ links[1].status = "pending"
    /\ OfCustomer(links[1], loans)

\* the risk score of the customer at hand had the customer no payment
RiskWithoutPayments ==
    _calculate_risk_score(customer, QueryActiveLoans(loans),
                          get_payment_statistics(NoPayments))

\* C25: create_payment_link inserts a Payment row of status pending, which
\* get_payment_statistics counts in total_payments and in neither
\* successful_payments nor failed_payments: for a customer with no earlier
\* payment, the context recomputed after one create_payment_link has
\* total_payments 1, success_rate 0 and pattern poor instead of new, and the
\* pattern component of its risk score is 35 instead of 25.
C25_PendingCountsAsPoor ==
    [][ /\ op' = "create_payment_link" =>
             /\ Len(links') = Len(links) + 1
             /\ links'[Len(links')].status = "pending"
             /\ OfCustomer(links'[Len(links')], loans) =>
                    payments' = [payments EXCEPT ![StatisticsRow("pending")] = @ + 1]
        /\ ( /\ OnePendingLink
             /\ ~_is_cache_valid(cache, now)
             /\ op' = "get_customer_context"
             /\ error' = None ) =>
               /\ context'.payment_history.total_payments = 1
               /\ context'.payment_history.successful_payments = 0
               /\ context'.payment_history.failed_payments = 0
               /\ context'.payment_history.success_rate = <<0, 1>>
               /\ context'.payment_history.payment_pattern = "poor"
               /\ get_payment_statistics(NoPayments).payment_pattern = "new"
               /\ context'.risk_score = RiskWithoutPayments + (35 - 25)
      ]_vars

\* the context of a customer whose one payment is a link created after the
\* context cached before it expired: pattern poor, 35 + 5 + 5 points
C25_Witness ==
    /\ OnePendingLink
    /\ op = "get_customer_context"
    /\ now >= MaxTicks
    /\ cache.timestamp = now
    /\ context.payment_history.total_payments = 1
    /\ context.payment_history.payment_pattern = "poor"
    /\ context.risk_score = 45

\* C26: verify_payment does not look at the payment's status: each
\* successful verification sets it to completed and takes the payment's
\* amount off the loan's outstanding amount again, down to 0 and never
\* below, and a failed verification sets it to failed even when it was
\* completed.
C26_VerifyIgnoresStatus ==
    [][ op' = "verify_payment" =>
          /\ \A k \in DOMAIN loans' : loans'[k].outstanding_amount >= 0
          /\ \E payment_id \in 1..MaxLinks :
                IF payment_id \notin DOMAIN links
                THEN links' = links /\ loans' = loans /\ payments' = payments
                ELSE LET payment == links[payment_id]
                         owed == loans[payment.loan_id].outstanding_amount
                     IN /\ \A other \in DOMAIN links \ {payment_id} :
                               links'[other] = links[other]
                        /\ \/ /\ links'[payment_id].status = "completed"
                              /\ OfCustomer(payment, loans) =>
                                     loans' =
                                         [loans EXCEPT
                                            ![payment.loan_id].outstanding_amount =
                                                IF owed >= payment.amount
                                                THEN owed - payment.amount
                                                ELSE 0]
                           \/ /\ links'[payment_id].status = "failed"
                              /\ loans' = loans
      ]_vars

\* one payment of 30000 verified twice with success, which took 50000 down
\* to 20000 and then to 0, and then verified once more and failed
C26_Witness ==
    /\ op = "verify_payment"
    /\ Len(links) = 1
    /\ links[1].amount = 30000
    /\ links[1].status = "failed"
    /\ OfCustomer(links[1], loans)
    /\ loans[1].outstanding_amount = 0
    /\ payments[StatisticsRow("failed")] = 1

\* the context lacks an interaction the store holds
LacksInteraction(customer_context) ==
    customer_context.recent_interactions
        # _get_recent_interactions(interactions, customer.id)

\* an update_customer_context has completed, after any interaction recorded,
\* and left no entry, while thread t holds a context read from the store
\* before the interaction and has yet to store it
StoreAfterInvalidation(t) ==
    /\ op = "update_customer_context"
    /\ cache = NoRecord
    /\ At(t, "store")
    /\ LacksInteraction(calls[t].built)

\* thread t takes a step
Steps(t) == calls'[t] # calls[t]

\* C24: a cache write is not ordered after a concurrent invalidation: when a
\* get_customer_context has read the store, an interaction is then recorded
\* and update_customer_context completes, and only then the get stores its
\* result, the cache holds a context that lacks the interaction, valid from
\* the time of the write; and every get_customer_context that finds the
\* entry valid returns its context and neither recomputes nor writes.
C24_WriteAfterInvalidation ==
    [][ \A t \in Threads :
          /\ (StoreAfterInvalidation(t) /\ Steps(t)) =>
                 /\ cache' = [data |-> calls[t].built, timestamp |-> now]
                 /\ LacksInteraction(cache'.data)
                 /\ _is_cache_valid(cache', now')
          /\ (At(t, "timestamp") /\ Steps(t) /\ _is_cache_valid(cache, now)) =>
                 calls'[t].pc = "read" /\ cache' = cache
          /\ (At(t, "read") /\ Steps(t) /\ cache # NoRecord) =>
                 /\ calls'[t].pc = "done"
                 /\ calls'[t].error = None
                 /\ calls'[t].built = cache.data
                 /\ cache' = cache
      ]_vars

\* the invalidation has completed since the interaction was recorded; one
\* thread has since stored the context it had read before, and the other is
\* about to return that context from the cache
C24_Witness ==
    /\ op = "update_customer_context"
    /\ interactions # <<>>
    /\ cache # NoRecord
    /\ LacksInteraction(cache.data)
    /\ \E a, b \in Threads :
          /\ a # b
          /\ At(a, "close")
          /\ calls[a].error = None
          /\ calls[a].built = cache.data
          /\ calls[b].op = "get_customer_context"
          /\ At(b, "done")
          /\ calls[b].error = None
          /\ calls[b].built = cache.data

====
